---- MODULE Spec2Model ----
(***************************************************************************)
(* PDF-Multimerger (src/main.py): the N-up layout engine and the batch     *)
(* pipeline of PDFMergerProcessor.                                         *)
(*                                                                         *)
(* Two specifications share the module.  Spec is the batch run: the        *)
(* constructor, process_pdfs, process_pdf_file with its pool of chunk      *)
(* workers and the final save.  SpecGeom applies the pure layout functions *)
(* (_calculate_layout, _generate_positions, _get_scale_factor and the      *)
(* placement arithmetic of _process_chunk) to inputs drawn from bounded    *)
(* sets.                                                                   *)
(*                                                                         *)
(* Python floats are modelled as exact rationals <<num, den>>, den > 0.    *)
(***************************************************************************)
EXTENDS Integers, Sequences, FiniteSets, TLC

VARIABLES
    pc,               \* position of the controlling flow
    given,            \* the pages_per_sheet argument handed to __init__
    cpu,              \* cpu_count()
    folder_ok,        \* whether os.listdir(input_folder) succeeds
    files,            \* pdf_files after the sort: one record per document
    pages_per_sheet,  \* self.pages_per_sheet (0 before __init__ sets it)
    i,                \* index of the current document in pdf_files (1-based)
    temp_dir,         \* state of the current document's TemporaryDirectory
    temp_files,       \* artifacts in temp_dir: path -> composited sheet
    writes,           \* path -> number of worker writes to that path
    chunks,           \* the chunk tuples built for the current document
    worker,           \* per chunk: "pending" | "running" | "returned"
    results,          \* what pool.map returns: per position a path or NoResult
    completed,        \* the chunk positions in the order their workers returned
    k,                \* position of the collection loop in results
    merger,           \* self.merger: the cumulative output sequence
    started,          \* documents process_pdf_file was called on
    chunk_fail_log,   \* printed chunk failures: <<doc, start, end>>
    file_fail_log,    \* printed document failures: doc
    fatal_log,        \* printed fatal errors of process_pdfs
    write_attempts,   \* how many times save_merged_pdf opened the output
    written,          \* the output file: NoFile or FileOf(pages)
    outcome,          \* what the caller of process_pdfs sees
    call              \* SpecGeom: the last pure-function call and its result

vars == <<pc, given, cpu, folder_ok, files, pages_per_sheet, i, temp_dir,
          temp_files, writes, chunks, worker, results, completed, k, merger,
          started, chunk_fail_log, file_fail_log, fatal_log, write_attempts, written,
          outcome, call>>

pipeline_vars == <<pc, given, cpu, folder_ok, files, pages_per_sheet, i,
                   temp_dir, temp_files, writes, chunks, worker, results,
                   completed, k, merger, started, chunk_fail_log,
                   file_fail_log, fatal_log, write_attempts, written, outcome>>

None == "None"

\* A result of pool.map not yet there, and a None returned by _process_chunk
\* (a path is a longer sequence).
PendingResult == <<"pending">>
NoResult == <<>>

\* No output file, and the output file holding the pages of a merger.
NoFile == <<>>
FileOf(pages) == <<pages>>

-----------------------------------------------------------------------------
(* Bounds of the model. *)

MaxDocs == 2        \* documents in the folder
MaxPages == 3       \* pages of all the documents together
MinGiven == 0       \* pages_per_sheet arguments range over -MinGiven..MaxGiven
MaxGiven == 3
MaxCpu == 2         \* cpu_count()
MaxN == 30          \* SpecGeom: argument of _calculate_layout
MaxCols == 3        \* SpecGeom: grid columns
MaxRows == 3        \* SpecGeom: grid rows
MaxDim == 3         \* SpecGeom: sheet width and height
MaxPadNum == 2      \* SpecGeom: padding = n/d, n in -MaxPadNum..MaxPadNum
MaxPadDen == 3      \* SpecGeom: d in 1..MaxPadDen

-----------------------------------------------------------------------------
(* Rational arithmetic standing for Python's float arithmetic. *)

Rat(n, d) == <<n, d>>
RatEq(a, b) == a[1] * b[2] = b[1] * a[2]
RatLt(a, b) == a[1] * b[2] < b[1] * a[2]
RatAdd(a, b) == <<a[1] * b[2] + b[1] * a[2], a[2] * b[2]>>
RatMul(a, b) == <<a[1] * b[1], a[2] * b[2]>>
RatTimes(m, a) == <<m * a[1], a[2]>>
PointEq(p, q) == RatEq(p[1], q[1]) /\ RatEq(p[2], q[2])

Min2(a, b) == IF a <= b THEN a ELSE b
Max2(a, b) == IF a >= b THEN a ELSE b

-----------------------------------------------------------------------------
(* The layout planner. *)

RECURSIVE CeilSqrtFrom(_, _)
\* math.ceil(math.sqrt(n)): the least c with c * c >= n, found by counting up.
CeilSqrtFrom(n, c) == IF c * c >= n THEN c ELSE CeilSqrtFrom(n, c + 1)

\* math.ceil(a / b) for a >= 0, b >= 1.
CeilDiv(a, b) == IF a % b = 0 THEN a \div b ELSE (a \div b) + 1

\* A bug a maintainer could make: int(math.sqrt(n)) instead of math.ceil.
_calculate_layout_floor(n) ==
    IF n < 1 THEN [err |-> "ValueError"]
    ELSE LET c == CeilSqrtFrom(n, 0)
             cols == IF c * c = n THEN c ELSE c - 1
         IN  [err |-> None, cols |-> cols, rows |-> CeilDiv(n, cols)]

\* A bug a maintainer could make: n // cols instead of math.ceil(n / cols).
_calculate_layout_rows_floor(n) ==
    IF n < 1 THEN [err |-> "ValueError"]
    ELSE LET cols == CeilSqrtFrom(n, 0)
         IN  [err |-> None, cols |-> cols, rows |-> n \div cols]

\* raise ValueError if n < 1, else cols = ceil(sqrt(n)), rows = ceil(n / cols)
_calculate_layout(n) ==
    IF n < 1 THEN [err |-> "ValueError"]
    ELSE LET cols == CeilSqrtFrom(n, 0)
         IN  [err |-> None, cols |-> cols, rows |-> CeilDiv(n, cols)]

RECURSIVE RowOfPositions(_, _, _, _, _, _)
\* The inner loop "for col in range(cols)" of one row, from column col on.
RowOfPositions(cols, rows, cell_width, cell_height, row, col) ==
    IF col >= cols THEN <<>>
    ELSE <<<<RatTimes(col, cell_width), RatTimes(rows - 1 - row, cell_height)>>>>
         \o RowOfPositions(cols, rows, cell_width, cell_height, row, col + 1)

RECURSIVE RowsOfPositions(_, _, _, _, _)
\* The outer loop "for row in range(rows)", from row on.
RowsOfPositions(cols, rows, cell_width, cell_height, row) ==
    IF row >= rows THEN <<>>
    ELSE RowOfPositions(cols, rows, cell_width, cell_height, row, 0)
         \o RowsOfPositions(cols, rows, cell_width, cell_height, row + 1)

RECURSIVE ColsOfPositions(_, _, _, _, _)
\* A bug a maintainer could make: the column as the outer loop.
ColsOfPositions(cols, rows, cell_width, cell_height, col) ==
    IF col >= cols THEN <<>>
    ELSE [r \in 1..rows |->
            <<RatTimes(col, cell_width), RatTimes(rows - r, cell_height)>>]
         \o ColsOfPositions(cols, rows, cell_width, cell_height, col + 1)

_generate_positions_col_major(cols, rows, width, height) ==
    ColsOfPositions(cols, rows, Rat(width, cols), Rat(height, rows), 0)

_generate_positions(cols, rows, width, height) ==
    LET cell_width == Rat(width, cols)
        cell_height == Rat(height, rows)
    IN  RowsOfPositions(cols, rows, cell_width, cell_height, 0)

\* A padding argument: None, a string, or a number n/d.
PadNone == [kind |-> "none"]
PadStr == [kind |-> "str"]
PadNum(n, d) == [kind |-> "num", val |-> Rat(n, d)]

\* isinstance(self.padding, (int, float))
IsNumber(padding) == padding.kind = "num"

_get_scale_factor(padding, cols, rows) ==
    IF IsNumber(padding) /\ RatLt(Rat(0, 1), padding.val)
    THEN LET padding_percent == padding.val
             shrink == RatAdd(Rat(1, 1), RatTimes(-2, padding_percent))
         IN  <<Rat(shrink[1], shrink[2] * cols), Rat(shrink[1], shrink[2] * rows)>>
    ELSE <<Rat(1, cols), Rat(1, rows)>>

\* padding_val of process_pdf_file.
padding_val_of(padding) == IF IsNumber(padding) THEN padding.val ELSE Rat(0, 1)

\* The (tx_total, ty_total) _process_chunk translates the page at idx to
\* (idx is 0-based, idx < len(positions)).
placement(cols, rows, width, height, padding_val, idx) ==
    LET cell_width == Rat(width, cols)
        cell_height == Rat(height, rows)
        positions == _generate_positions(cols, rows, width, height)
        tx == positions[idx + 1][1]
        ty == positions[idx + 1][2]
        padx == RatMul(cell_width, padding_val)
        pady == RatMul(cell_height, padding_val)
    IN  <<RatAdd(tx, padx), RatAdd(ty, pady)>>

-----------------------------------------------------------------------------
(* The documents of the input folder. *)

\* What PdfReader(file_path) finds: an unreadable file, or a document with
\* pages pages whose first page has a width x height media box.  The media
\* box never decides the control flow, so every document has the same one.
Documents ==
    {[readable |-> TRUE, pages |-> p, width |-> MaxDim, height |-> MaxDim] :
        p \in 0..MaxPages}
    \cup {[readable |-> FALSE, pages |-> 0, width |-> MaxDim, height |-> MaxDim]}

RECURSIVE TotalPages(_)
TotalPages(fs) == IF fs = <<>> THEN 0 ELSE Head(fs).pages + TotalPages(Tail(fs))

\* The sorted pdf_files lists the run may find: at most MaxDocs documents
\* holding at most MaxPages pages between them.
FileLists ==
    {fs \in UNION {[1..n -> Documents] : n \in 0..MaxDocs} :
        TotalPages(fs) <= MaxPages}

-----------------------------------------------------------------------------
(* Helpers of process_pdf_file and _process_chunk. *)

\* self.pages_per_sheet = pages_per_sheet, without the clamp.
init_pages_per_sheet_unclamped(pages_per_sheet_arg) == pages_per_sheet_arg

\* self.pages_per_sheet = max(1, pages_per_sheet)
init_pages_per_sheet(pages_per_sheet_arg) == Max2(1, pages_per_sheet_arg)

RECURSIVE build_chunks(_, _, _, _)
\* The chunk tuples, for start in range(start, total_pages, chunk_size).
build_chunks(start, total_pages, chunk_size, layout) ==
    IF start >= total_pages THEN <<>>
    ELSE <<[start |-> start,
            end |-> Min2(start + chunk_size, total_pages),
            cols |-> layout.cols,
            rows |-> layout.rows]>>
         \o build_chunks(start + chunk_size, total_pages, chunk_size, layout)

RECURSIVE Decimal(_)
\* str(n) for n >= 0, as the sequence of its digits.
Decimal(n) ==
    LET digit == <<"0", "1", "2", "3", "4", "5", "6", "7", "8", "9">>
    IN  IF n < 10 THEN <<digit[n + 1]>>
        ELSE Decimal(n \div 10) \o <<digit[(n % 10) + 1]>>

\* os.path.join(temp_dir, f"chunk_{start}_{end}.pdf"): the file name, in
\* the one temp_dir of the document.
chunk_path(start, end) ==
    <<"chunk", "_">> \o Decimal(start) \o <<"_">> \o Decimal(end) \o <<".pdf">>

\* The sheet _process_chunk composites for one chunk tuple of document doc:
\* the source pages merged, in slot order (slot idx holds merged[idx + 1]).
composite(doc, chunk) ==
    LET positions == _generate_positions(chunk.cols, chunk.rows,
                                         files[doc].width, files[doc].height)
        length == chunk.end - chunk.start
        used == Min2(length, Len(positions))
    IN  [doc |-> doc, start |-> chunk.start, end |-> chunk.end,
         merged |-> [idx \in 1..used |-> chunk.start + idx - 1]]

\* A bug a maintainer could make: results gathered in completion order
\* (imap_unordered): the n-th worker to return fills position n.
store_result_on_completion(res, done, c, value) ==
    [res EXCEPT ![Len(done) + 1] = value]

\* pool.map keeps the result of the chunk at position c at position c,
\* whatever the chunks done returned before it.
store_result(res, done, c, value) == [res EXCEPT ![c] = value]

Running == {c \in DOMAIN worker : worker[c] = "running"}
Pending == {c \in DOMAIN worker : worker[c] = "pending"}

\* What leaving process_pdf_file resets: the per-document locals.
DropLocals ==
    /\ chunks' = <<>>
    /\ worker' = <<>>
    /\ results' = <<>>
    /\ completed' = <<>>
    /\ k' = 0

\* A bug a maintainer could make: mkdtemp() with the rmtree after the
\* collection loop, which an exception skips.
temp_dir_exit_leaky(raised) ==
    IF raised
    THEN UNCHANGED <<temp_dir, temp_files, writes>>
    ELSE temp_dir' = "removed" /\ temp_files' = <<>> /\ writes' = <<>>

\* TemporaryDirectory.__exit__: the directory and all it holds are removed,
\* whether or not the block raised.
temp_dir_exit(raised) ==
    /\ temp_dir' = "removed"
    /\ temp_files' = <<>>
    /\ writes' = <<>>

\* A bug a maintainer could make: process_pdf_file without its try/except,
\* so the exception reaches the except clause of process_pdfs.
file_exception_propagates(doc) ==
    /\ fatal_log' = fatal_log \cup {"file"}
    /\ pc' = "done"
    /\ outcome' = "returned"
    /\ UNCHANGED <<i, file_fail_log>>

\* except Exception of process_pdf_file: the failure is printed and the
\* loop of process_pdfs goes on with the next file.
file_exception(doc) ==
    /\ file_fail_log' = file_fail_log \cup {doc}
    /\ pc' = "loop"
    /\ i' = i + 1
    /\ UNCHANGED <<fatal_log, outcome>>

\* A bug a maintainer could make: the except clause re-raises.
fatal_exception_reraised(what) ==
    /\ fatal_log' = fatal_log \cup {what}
    /\ pc' = "done"
    /\ outcome' = "raised"

\* except Exception / finally of process_pdfs: the error is printed and
\* process_pdfs returns normally.
fatal_exception(what) ==
    /\ fatal_log' = fatal_log \cup {what}
    /\ pc' = "done"
    /\ outcome' = "returned"

-----------------------------------------------------------------------------
(* The batch run. *)

Init ==
    /\ pc = "new"
    /\ given \in (0 - MinGiven)..MaxGiven
    /\ cpu \in 1..MaxCpu
    /\ folder_ok \in BOOLEAN
    /\ files \in FileLists
    /\ (~folder_ok => files = <<>>)
    /\ pages_per_sheet = 0
    /\ i = 0
    /\ temp_dir = "none"
    /\ temp_files = <<>>
    /\ writes = <<>>
    /\ chunks = <<>>
    /\ worker = <<>>
    /\ results = <<>>
    /\ completed = <<>>
    /\ k = 0
    /\ merger = <<>>
    /\ started = {}
    /\ chunk_fail_log = {}
    /\ file_fail_log = {}
    /\ fatal_log = {}
    /\ write_attempts = 0
    /\ written = NoFile
    /\ outcome = "none"
    /\ call = [fn |-> "idle"]

\* PDFMergerProcessor(...)
__init__ ==
    /\ pc = "new"
    /\ pages_per_sheet' = init_pages_per_sheet(given)
    /\ pc' = "constructed"
    /\ UNCHANGED <<given, cpu, folder_ok, files, i, temp_dir, temp_files,
                   writes, chunks, worker, results, completed, k, merger,
                   started, chunk_fail_log, file_fail_log, fatal_log,
                   write_attempts, written, outcome, call>>

\* process_pdfs: the folder is listed, filtered and sorted.
process_pdfs_list ==
    /\ pc = "constructed"
    /\ folder_ok
    /\ pc' = "loop"
    /\ i' = 1
    /\ UNCHANGED <<given, cpu, folder_ok, files, pages_per_sheet, temp_dir,
                   temp_files, writes, chunks, worker, results, completed, k,
                   merger, started, chunk_fail_log, file_fail_log, fatal_log,
                   write_attempts, written, outcome, call>>

\* process_pdfs: os.listdir raises.
process_pdfs_list_fails ==
    /\ pc = "constructed"
    /\ ~folder_ok
    /\ fatal_exception("listdir")
    /\ UNCHANGED <<given, cpu, folder_ok, files, pages_per_sheet, i, temp_dir,
                   temp_files, writes, chunks, worker, results, completed, k,
                   merger, started, chunk_fail_log, file_fail_log,
                   write_attempts, written, call>>

\* process_pdf_file: PdfReader(file_path) or the read of the first page raises.
process_pdf_file_unreadable ==
    /\ pc = "loop"
    /\ i <= Len(files)
    /\ ~files[i].readable
    /\ started' = started \cup {i}
    /\ file_exception(i)
    /\ UNCHANGED <<given, cpu, folder_ok, files, pages_per_sheet, temp_dir,
                   temp_files, writes, chunks, worker, results, completed, k,
                   merger, chunk_fail_log, write_attempts, written, call>>

\* process_pdf_file: "if not reader.pages: return".
process_pdf_file_empty ==
    /\ pc = "loop"
    /\ i <= Len(files)
    /\ files[i].readable
    /\ files[i].pages = 0
    /\ started' = started \cup {i}
    /\ i' = i + 1
    /\ UNCHANGED <<pc, given, cpu, folder_ok, files, pages_per_sheet,
                   temp_dir, temp_files, writes, chunks, worker, results,
                   completed, k, merger, chunk_fail_log, file_fail_log,
                   fatal_log, write_attempts, written, outcome, call>>

\* process_pdf_file on a document with pages: the layout is computed (a
\* ValueError of _calculate_layout is caught as a failure of the document),
\* the temporary directory made, the chunks built and handed to the pool.
process_pdf_file_dispatch ==
    /\ pc = "loop"
    /\ i <= Len(files)
    /\ files[i].readable
    /\ files[i].pages > 0
    /\ started' = started \cup {i}
    /\ LET layout == _calculate_layout(pages_per_sheet)
       IN  IF layout.err # None
           THEN /\ file_exception(i)
                /\ UNCHANGED <<temp_dir, temp_files, writes, chunks, worker,
                               results, completed, k>>
           ELSE /\ chunks' = build_chunks(0, files[i].pages, pages_per_sheet,
                                          layout)
                /\ worker' = [c \in 1..Len(chunks') |-> "pending"]
                /\ results' = [c \in 1..Len(chunks') |-> PendingResult]
                /\ completed' = <<>>
                /\ k' = 0
                /\ temp_dir' = "open"
                /\ temp_files' = <<>>
                /\ writes' = <<>>
                /\ pc' = "pool"
                /\ UNCHANGED <<i, file_fail_log, fatal_log, outcome>>
    /\ UNCHANGED <<given, cpu, folder_ok, files, pages_per_sheet, merger,
                   chunk_fail_log, write_attempts, written, call>>

\* A pool process takes the next chunk off the task queue (in order); the
\* pool has min(cpu_count(), len(chunks)) processes.
_process_chunk_start(c) ==
    /\ pc = "pool"
    /\ worker[c] = "pending"
    /\ \A q \in Pending : c <= q
    /\ Cardinality(Running) < Min2(cpu, Len(chunks))
    /\ worker' = [worker EXCEPT ![c] = "running"]
    /\ UNCHANGED <<pc, given, cpu, folder_ok, files, pages_per_sheet, i,
                   temp_dir, temp_files, writes, chunks, results, completed,
                   k, merger, started, chunk_fail_log, file_fail_log,
                   fatal_log, write_attempts, written, outcome, call>>

\* _process_chunk: the sheet is composited, written to the chunk's path in
\* temp_dir and the path returned.
_process_chunk_returns(c) ==
    /\ pc = "pool"
    /\ worker[c] = "running"
    /\ LET temp_pdf_path == chunk_path(chunks[c].start, chunks[c].end)
           count == IF temp_pdf_path \in DOMAIN writes
                    THEN writes[temp_pdf_path] ELSE 0
       IN  /\ temp_files' = (temp_pdf_path :> composite(i, chunks[c]))
                            @@ temp_files
           /\ writes' = (temp_pdf_path :> (count + 1)) @@ writes
           /\ results' = store_result(results, completed, c, temp_pdf_path)
    /\ worker' = [worker EXCEPT ![c] = "returned"]
    /\ completed' = Append(completed, c)
    /\ UNCHANGED <<pc, given, cpu, folder_ok, files, pages_per_sheet, i,
                   temp_dir, chunks, k, merger, started, chunk_fail_log,
                   file_fail_log, fatal_log, write_attempts, written, outcome,
                   call>>

\* _process_chunk: an exception is caught, printed, and None returned.
_process_chunk_fails(c) ==
    /\ pc = "pool"
    /\ worker[c] = "running"
    /\ chunk_fail_log' = chunk_fail_log
                         \cup {<<i, chunks[c].start, chunks[c].end>>}
    /\ results' = store_result(results, completed, c, NoResult)
    /\ worker' = [worker EXCEPT ![c] = "returned"]
    /\ completed' = Append(completed, c)
    /\ UNCHANGED <<pc, given, cpu, folder_ok, files, pages_per_sheet, i,
                   temp_dir, temp_files, writes, chunks, k, merger, started,
                   file_fail_log, fatal_log, write_attempts, written, outcome,
                   call>>

\* pool.map returns once every chunk has returned; the pool is closed.
pool_map_returns ==
    /\ pc = "pool"
    /\ \A c \in DOMAIN worker : worker[c] = "returned"
    /\ pc' = "collect"
    /\ k' = 1
    /\ UNCHANGED <<given, cpu, folder_ok, files, pages_per_sheet, i, temp_dir,
                   temp_files, writes, chunks, worker, results, completed,
                   merger, started, chunk_fail_log, file_fail_log, fatal_log,
                   write_attempts, written, outcome, call>>

\* A bug a maintainer could make: a failed chunk is replaced by an empty
\* sheet instead of being skipped.
collect_none_blank ==
    /\ pc = "collect"
    /\ k <= Len(results)
    /\ results[k] = NoResult
    /\ merger' = Append(merger, [doc |-> i, start |-> chunks[k].start,
                                 end |-> chunks[k].start, merged |-> <<>>])
    /\ k' = k + 1
    /\ UNCHANGED <<pc, given, cpu, folder_ok, files, pages_per_sheet, i,
                   temp_dir, temp_files, writes, chunks, worker, results,
                   completed, started, chunk_fail_log, file_fail_log,
                   fatal_log, write_attempts, written, outcome, call>>

\* The collection loop meets a None: "if temp_pdf" is false.
collect_none ==
    /\ pc = "collect"
    /\ k <= Len(results)
    /\ results[k] = NoResult
    /\ k' = k + 1
    /\ UNCHANGED <<pc, given, cpu, folder_ok, files, pages_per_sheet, i,
                   temp_dir, temp_files, writes, chunks, worker, results,
                   completed, merger, started, chunk_fail_log, file_fail_log,
                   fatal_log, write_attempts, written, outcome, call>>

\* The collection loop reads a chunk's artifact back and adds its page.
collect_add_page ==
    /\ pc = "collect"
    /\ k <= Len(results)
    /\ results[k] # NoResult
    /\ merger' = Append(merger, temp_files[results[k]])
    /\ k' = k + 1
    /\ UNCHANGED <<pc, given, cpu, folder_ok, files, pages_per_sheet, i,
                   temp_dir, temp_files, writes, chunks, worker, results,
                   completed, started, chunk_fail_log, file_fail_log,
                   fatal_log, write_attempts, written, outcome, call>>

\* The collection loop raises (PdfReader(temp_pdf) or add_page): the with
\* block is left and the except clause of process_pdf_file runs.
collect_raises ==
    /\ pc = "collect"
    /\ k <= Len(results)
    /\ results[k] # NoResult
    /\ temp_dir_exit(TRUE)
    /\ file_exception(i)
    /\ DropLocals
    /\ UNCHANGED <<given, cpu, folder_ok, files, pages_per_sheet, merger,
                   started, chunk_fail_log, write_attempts, written, call>>

\* The collection loop is over: the with block is left, process_pdf_file
\* returns and process_pdfs goes on with the next file.
process_pdf_file_returns ==
    /\ pc = "collect"
    /\ k > Len(results)
    /\ temp_dir_exit(FALSE)
    /\ DropLocals
    /\ pc' = "loop"
    /\ i' = i + 1
    /\ UNCHANGED <<given, cpu, folder_ok, files, pages_per_sheet, merger,
                   started, chunk_fail_log, file_fail_log, fatal_log,
                   write_attempts, written, outcome, call>>

\* save_merged_pdf after the loop: the write succeeds, process_pdfs returns.
save_merged_pdf ==
    /\ pc = "loop"
    /\ i > Len(files)
    /\ write_attempts' = write_attempts + 1
    /\ written' = FileOf(merger)
    /\ pc' = "done"
    /\ outcome' = "returned"
    /\ UNCHANGED <<given, cpu, folder_ok, files, pages_per_sheet, i, temp_dir,
                   temp_files, writes, chunks, worker, results, completed, k,
                   merger, started, chunk_fail_log, file_fail_log, fatal_log,
                   call>>

\* save_merged_pdf after the loop: open or write raises.
save_merged_pdf_fails ==
    /\ pc = "loop"
    /\ i > Len(files)
    /\ write_attempts' = write_attempts + 1
    /\ fatal_exception("save")
    /\ UNCHANGED <<given, cpu, folder_ok, files, pages_per_sheet, i, temp_dir,
                   temp_files, writes, chunks, worker, results, completed, k,
                   merger, started, chunk_fail_log, file_fail_log, written,
                   call>>

Next ==
    \/ __init__
    \/ process_pdfs_list
    \/ process_pdfs_list_fails
    \/ process_pdf_file_unreadable
    \/ process_pdf_file_empty
    \/ process_pdf_file_dispatch
    \/ \E c \in DOMAIN worker : _process_chunk_start(c)
    \/ \E c \in DOMAIN worker : _process_chunk_returns(c)
    \/ \E c \in DOMAIN worker : _process_chunk_fails(c)
    \/ pool_map_returns
    \/ collect_none
    \/ collect_add_page
    \/ collect_raises
    \/ process_pdf_file_returns
    \/ save_merged_pdf
    \/ save_merged_pdf_fails

Spec == Init /\ [][Next]_vars

-----------------------------------------------------------------------------
(* The pure layout functions applied to bounded inputs. *)

Paddings ==
    {PadNone, PadStr}
    \cup {PadNum(n, d) : n \in (0 - MaxPadNum)..MaxPadNum, d \in 1..MaxPadDen}

InitGeom ==
    /\ pc = "geom"
    /\ given = 0
    /\ cpu = 1
    /\ folder_ok = TRUE
    /\ files = <<>>
    /\ pages_per_sheet = 0
    /\ i = 0
    /\ temp_dir = "none"
    /\ temp_files = <<>>
    /\ writes = <<>>
    /\ chunks = <<>>
    /\ worker = <<>>
    /\ results = <<>>
    /\ completed = <<>>
    /\ k = 0
    /\ merger = <<>>
    /\ started = {}
    /\ chunk_fail_log = {}
    /\ file_fail_log = {}
    /\ fatal_log = {}
    /\ write_attempts = 0
    /\ written = NoFile
    /\ outcome = "none"
    /\ call = [fn |-> "idle"]

\* cols, rows = self._calculate_layout(n)
call_calculate_layout ==
    /\ call.fn = "idle"
    /\ \E n \in (0 - 1)..MaxN :
          call' = [fn |-> "_calculate_layout", n |-> n,
                   ret |-> _calculate_layout(n)]
    /\ UNCHANGED pipeline_vars

\* positions = _generate_positions(cols, rows, width, height)
call_generate_positions ==
    /\ call.fn = "idle"
    /\ \E cols \in 1..MaxCols, rows \in 1..MaxRows,
          width \in 1..MaxDim, height \in 1..MaxDim :
          call' = [fn |-> "_generate_positions", cols |-> cols, rows |-> rows,
                   width |-> width, height |-> height,
                   ret |-> _generate_positions(cols, rows, width, height)]
    /\ UNCHANGED pipeline_vars

\* The scale of process_pdf_file and the translations of _process_chunk for
\* one padding, grid and sheet size: one placement per slot.
call_place ==
    /\ call.fn = "idle"
    /\ \E padding \in Paddings, cols \in 1..MaxCols, rows \in 1..MaxRows,
          width \in 1..MaxDim, height \in 1..MaxDim :
          call' = [fn |-> "place", padding |-> padding, cols |-> cols,
                   rows |-> rows, width |-> width, height |-> height,
                   scale |-> _get_scale_factor(padding, cols, rows),
                   offsets |->
                     [s \in 1..(cols * rows) |->
                        placement(cols, rows, width, height,
                                  padding_val_of(padding), s - 1)]]
    /\ UNCHANGED pipeline_vars

NextGeom ==
    \/ call_calculate_layout
    \/ call_generate_positions
    \/ call_place

SpecGeom == InitGeom /\ [][NextGeom]_vars

-----------------------------------------------------------------------------
(* Properties of the batch run, specification Spec. *)

\* The sheets of document d in the cumulative output.
SheetsOf(d) == {p \in 1..Len(merger) : merger[p].doc = d}

\* process_pdf_file has returned for document d.
Finished(d) == d \in started /\ d < i

\* The chunks of document d whose failure _process_chunk printed.
FailedChunks(d) == {e \in chunk_fail_log : e[1] = d}

\* C1: the cumulative output is ordered by (document position, chunk index):
\* of two sheets the earlier one is of an earlier document, or of the same
\* document and an earlier chunk, whatever order the workers returned in.
C1_OutputOrdered ==
    \A a, b \in 1..Len(merger) :
        a < b =>
            \/ merger[a].doc < merger[b].doc
            \/ /\ merger[a].doc = merger[b].doc
               /\ merger[a].start < merger[b].start

\* The second document's workers returned out of chunk order, and its two
\* sheets were collected behind a sheet of the first document.
C1_Witness ==
    /\ pc = "collect"
    /\ i = 2
    /\ Len(completed) >= 2
    /\ completed[1] > completed[2]
    /\ k > Len(results)
    /\ Cardinality(SheetsOf(1)) >= 1
    /\ Cardinality(SheetsOf(2)) >= 2

\* C2: a document that cannot be opened or read leaves the cumulative output
\* as it was, is logged as failed, puts no sheet into the output, and the
\* loop goes on: at the end process_pdf_file was called on every document.
C2_UnreadableIsolated ==
    /\ [](/\ \A d \in started :
                ~files[d].readable =>
                    SheetsOf(d) = {} /\ (d < i => d \in file_fail_log)
          /\ (pc = "done" /\ folder_ok) => started = 1..Len(files))
    /\ [][(pc = "loop" /\ i <= Len(files) /\ ~files[i].readable)
            => (merger' = merger /\ pc' = "loop" /\ i' = i + 1)]_vars

\* The run ended, the first document was unreadable and a later document
\* put a sheet into the output.
C2_Witness ==
    /\ pc = "done"
    /\ Len(files) >= 2
    /\ ~files[1].readable
    /\ 1 \in file_fail_log
    /\ SheetsOf(2) # {}

\* The chunks of the current document are the consecutive ranges of
\* pages_per_sheet pages, ceil(P / pages_per_sheet) of them, the last one
\* possibly shorter.
ChunksPartition ==
    pc \in {"pool", "collect"} =>
        /\ Len(chunks) = CeilDiv(files[i].pages, pages_per_sheet)
        /\ \A c \in 1..Len(chunks) :
              /\ chunks[c].start = (c - 1) * pages_per_sheet
              /\ chunks[c].end = Min2(c * pages_per_sheet, files[i].pages)
              /\ (c < Len(chunks) =>
                    chunks[c].end - chunks[c].start = pages_per_sheet)

C4_Rejected_AsStated ==
    given < 1 => /\ (pc # "new" => outcome = "raised")
                 /\ started = {}

\* C4 amended: the constructor never raises; it clamps the argument, so
\* from construction on pages_per_sheet is the argument if that is >= 1
\* and 1 otherwise, and every chunk built has between 1 and
\* pages_per_sheet pages.
C4_Clamped ==
    /\ outcome # "raised"
    /\ pc # "new" =>
          /\ pages_per_sheet >= 1
          /\ pages_per_sheet = (IF given < 1 THEN 1 ELSE given)
          /\ \A c \in 1..Len(chunks) :
                /\ chunks[c].end - chunks[c].start >= 1
                /\ chunks[c].end - chunks[c].start <= pages_per_sheet

\* A run constructed with an argument below 1 ended with sheets of one page
\* each in the output.
C4_Witness ==
    /\ given < 1
    /\ pc = "done"
    /\ Len(merger) >= 2
    /\ \A p \in 1..Len(merger) : merger[p].end - merger[p].start = 1

\* Every document of the folder has been handed to process_pdf_file.
AllProcessed == folder_ok /\ started = 1..Len(files) /\ i = Len(files) + 1

\* C5 as stated: the final write is attempted at most once and only after
\* every document was processed, and a failed write ends the run with an
\* error that reaches the caller of process_pdfs.
C5_WriteFailureRaised_AsStated ==
    /\ write_attempts <= 1
    /\ (write_attempts = 1 => AllProcessed)
    /\ ("save" \in fatal_log => outcome = "raised")

\* C5 amended: the final write is attempted at most once, only after every
\* document was processed, and exactly once in every run whose folder could
\* be listed (no failure of a document or chunk ends the run); a failed
\* write is printed as a fatal error, leaves no output, and process_pdfs
\* returns normally all the same.
C5_WriteFailureSwallowed ==
    /\ write_attempts <= 1
    /\ (write_attempts = 1 => AllProcessed /\ pc = "done")
    /\ (pc = "done" /\ folder_ok => write_attempts = 1)
    /\ (pc = "done" => outcome = "returned")
    /\ (pc # "done" => outcome = "none")
    /\ ("save" \in fatal_log =>
            write_attempts = 1 /\ written = NoFile /\ outcome = "returned")
    /\ (written # NoFile => written = FileOf(merger) /\ fatal_log = {})

\* The write failed at the end of a run in which a document and a chunk had
\* failed before and a sheet had been collected.
C5_Witness ==
    /\ pc = "done"
    /\ "save" \in fatal_log
    /\ file_fail_log # {}
    /\ chunk_fail_log # {}
    /\ Len(merger) >= 1

\* The sheets the run holds: collected ones and artifacts of the workers.
Sheets ==
    {merger[p] : p \in 1..Len(merger)}
    \cup {temp_files[path] : path \in DOMAIN temp_files}

\* C9: each page of the current document lies in exactly one chunk, the
\* chunk floor(p / pages_per_sheet); a chunk is no longer than
\* pages_per_sheet, which the grid holds; and a composited sheet holds every
\* page of its chunk, page p at slot p mod pages_per_sheet, none dropped.
C9_PagesToSlots ==
    /\ pc \in {"pool", "collect"} =>
          /\ \A p \in 0..(files[i].pages - 1) :
                /\ Cardinality({c \in 1..Len(chunks) :
                       chunks[c].start <= p /\ p < chunks[c].end}) = 1
                /\ (p \div pages_per_sheet) + 1 \in 1..Len(chunks)
                /\ chunks[(p \div pages_per_sheet) + 1].start <= p
                /\ p < chunks[(p \div pages_per_sheet) + 1].end
          /\ \A c \in 1..Len(chunks) :
                /\ chunks[c].end - chunks[c].start <= pages_per_sheet
                /\ pages_per_sheet <= chunks[c].cols * chunks[c].rows
    /\ \A sh \in Sheets :
          /\ Len(sh.merged) = sh.end - sh.start
          /\ sh.start % pages_per_sheet = 0
          /\ \A idx \in 1..Len(sh.merged) :
                /\ sh.merged[idx] \in sh.start..(sh.end - 1)
                /\ sh.merged[idx] \div pages_per_sheet
                       = sh.start \div pages_per_sheet
                /\ sh.merged[idx] % pages_per_sheet = idx - 1
          /\ \A a, b \in 1..Len(sh.merged) :
                a # b => sh.merged[a] # sh.merged[b]

\* A document put a full sheet of several pages and a shorter last sheet
\* into the output.
C9_Witness ==
    \E a, b \in 1..Len(merger) :
        /\ merger[a].doc = merger[b].doc
        /\ pages_per_sheet >= 2
        /\ Len(merger[a].merged) = pages_per_sheet
        /\ merger[b].start = pages_per_sheet
        /\ Len(merger[b].merged) < pages_per_sheet
        /\ Len(merger[b].merged) >= 1

\* The path of the chunk at position c of the current document.
PathOf(c) == chunk_path(chunks[c].start, chunks[c].end)

\* C10: the chunks of a document have pairwise distinct paths and no path
\* is written twice; a step of a worker writes only the path of its own
\* chunk and leaves the cumulative output alone, which changes only in the
\* collection loop of the controlling flow; and outside the pool and
\* collection phases no temporary directory is open and no artifact is left.
C10_TransientArtifacts ==
    /\ [](/\ \A c, d \in 1..Len(chunks) : c # d => PathOf(c) # PathOf(d)
          /\ \A path \in DOMAIN writes : writes[path] <= 1
          /\ DOMAIN temp_files
                 = {PathOf(c) : c \in {x \in 1..Len(chunks) :
                        worker[x] = "returned" /\ results[x] # NoResult}}
          /\ (pc \notin {"pool", "collect"} =>
                 temp_dir # "open" /\ temp_files = <<>>))
    /\ [][/\ (merger' # merger => pc = "collect" /\ worker' = worker)
          /\ (worker' # worker => merger' = merger)
          /\ ((pc = "pool" /\ pc' = "pool" /\ temp_files' # temp_files) =>
                 \E c \in 1..Len(chunks) :
                    /\ worker[c] = "running"
                    /\ worker'[c] = "returned"
                    /\ DOMAIN temp_files' = DOMAIN temp_files \cup {PathOf(c)}
                    /\ \A path \in DOMAIN temp_files :
                          temp_files'[path] = temp_files[path])]_vars

\* process_pdf_file was left by a raising collection loop, after a chunk of
\* the document had failed and another had written its artifact, and the
\* directory is gone.
C10_Witness ==
    \E d \in 1..Len(files) :
        /\ Finished(d)
        /\ d = i - 1
        /\ files[d].readable
        /\ d \in file_fail_log
        /\ FailedChunks(d) # {}
        /\ pc = "loop"
        /\ temp_dir = "removed"
        /\ temp_files = <<>>

-----------------------------------------------------------------------------
(* Properties of the layout functions, specification SpecGeom. *)

\* C6: for n >= 1 _calculate_layout(n) does not raise and returns
\* cols = ceil(sqrt(n)) (the one cols with (cols-1)^2 < n <= cols^2) and
\* rows = ceil(n / cols) (the one rows with (rows-1)*cols < n <= rows*cols),
\* both >= 1 with cols * rows >= n; 1, 4, 5, 6, 9 give (1,1), (2,2), (3,2),
\* (3,2), (3,3).
C6_Layout ==
    (call.fn = "_calculate_layout" /\ call.n >= 1) =>
        /\ call.ret.err = None
        /\ call.ret.cols >= 1
        /\ call.ret.rows >= 1
        /\ (call.ret.cols - 1) * (call.ret.cols - 1) < call.n
        /\ call.n <= call.ret.cols * call.ret.cols
        /\ (call.ret.rows - 1) * call.ret.cols < call.n
        /\ call.n <= call.ret.rows * call.ret.cols
        /\ (call.n = 1 => call.ret.cols = 1 /\ call.ret.rows = 1)
        /\ (call.n = 4 => call.ret.cols = 2 /\ call.ret.rows = 2)
        /\ (call.n = 5 => call.ret.cols = 3 /\ call.ret.rows = 2)
        /\ (call.n = 6 => call.ret.cols = 3 /\ call.ret.rows = 2)
        /\ (call.n = 9 => call.ret.cols = 3 /\ call.ret.rows = 3)

\* _calculate_layout(5) returned the 3 x 2 grid.
C6_Witness ==
    /\ call.fn = "_calculate_layout"
    /\ call.n = 5
    /\ call.ret.cols = 3
    /\ call.ret.rows = 2

\* C7: _generate_positions returns cols * rows pairwise distinct origins,
\* row-major with the row outermost: entry k (from 0) is
\* ((k mod cols) * width / cols, (rows - 1 - k div cols) * height / rows),
\* the first the top-left cell, the last the bottom-right cell.
C7_Positions ==
    call.fn = "_generate_positions" =>
        LET n == call.cols * call.rows
            at(kk) == call.ret[kk + 1]
        IN  /\ Len(call.ret) = n
            /\ \A a, b \in 0..(n - 1) : a # b => ~PointEq(at(a), at(b))
            /\ \A kk \in 0..(n - 1) :
                  PointEq(at(kk),
                          <<Rat((kk % call.cols) * call.width, call.cols),
                            Rat((call.rows - 1 - (kk \div call.cols))
                                    * call.height, call.rows)>>)
            /\ PointEq(at(0),
                       <<Rat(0, 1),
                         Rat((call.rows - 1) * call.height, call.rows)>>)
            /\ PointEq(at(n - 1),
                       <<Rat((call.cols - 1) * call.width, call.cols),
                         Rat(0, 1)>>)

\* _generate_positions was applied to a grid of several rows and columns
\* that is not square.
C7_Witness ==
    /\ call.fn = "_generate_positions"
    /\ call.cols = 3
    /\ call.rows = 2
    /\ Len(call.ret) = 6

\* A padding that the data model calls a no-op: absent, not a number, zero
\* or negative.
NoOpPadding(padding) ==
    \/ padding.kind \in {"none", "str"}
    \/ padding.kind = "num" /\ ~RatLt(Rat(0, 1), padding.val)

\* C8: with a no-op padding the scale factors are (1/cols, 1/rows) and the
\* translation of every slot is the bare slot origin, as with padding 0.
C8_PaddingNoOp ==
    (call.fn = "place" /\ NoOpPadding(call.padding)) =>
        LET zero == PadNum(0, 1)
            scale0 == _get_scale_factor(zero, call.cols, call.rows)
            origins == _generate_positions(call.cols, call.rows,
                                           call.width, call.height)
        IN  /\ PointEq(call.scale, scale0)
            /\ PointEq(call.scale, <<Rat(1, call.cols), Rat(1, call.rows)>>)
            /\ \A s \in 1..(call.cols * call.rows) :
                  /\ PointEq(call.offsets[s], origins[s])
                  /\ PointEq(call.offsets[s],
                             placement(call.cols, call.rows, call.width,
                                       call.height, padding_val_of(zero),
                                       s - 1))

====
